---------------------------- MODULE Spec2Model ----------------------------
(***************************************************************************)
(* hex_api_integration: the Airbus client wrappers (Authentication,        *)
(* AbstractApi, Geostore, OneAtlas, Tasking) as a state machine.           *)
(*                                                                         *)
(* The program is synchronous and single-threaded: every public method is  *)
(* one action.  A method that sends HTTP requests is modelled as the set   *)
(* of its possible outcomes, one per combination of answers the remote     *)
(* service can give; an outcome holds the session after the call, the      *)
(* value returned (or the exception raised) and the requests sent.         *)
(*                                                                         *)
(* Python values: None is the string "None"; a JSON body the code only     *)
(* stores or tests for truthiness is an atom (a string); a body the code   *)
(* looks into is a record of the fields it reads.  A place that can hold   *)
(* values of several kinds (a returned value, the content of an answer)    *)
(* always holds a record, so that any two states compare.  Every HTTP      *)
(* answer is taken to carry a decodable JSON body.                         *)
(***************************************************************************)
EXTENDS Naturals, Sequences, FiniteSets

VARIABLES
    service,   \* how the identity service treats the api_key in use
    auth,      \* the Authentication session: [token, errors]
    api,       \* the Api built on the session: [kind, token]
    files,     \* the temporary directory: file name -> content
    last       \* the last call: what it was given, returned and sent

vars == <<service, auth, api, files, last>>

----------------------------------------------------------------------------
(* Bounds of the model *)

\* number of distinct access tokens the identity service hands out
MaxTokens == 2

\* number of candidate names the temporary-name generator can draw
MaxNames == 2

\* number of keyword arguments a call of get_payload is given
MaxGiven == 3

----------------------------------------------------------------------------
(* Python values *)

None == "None"

EmptyDict == "{}"

\* Python truthiness of a value modelled as an atom
Truthy(x) == x \notin {None, EmptyDict, ""}

Tokens == { <<"tok", i>> : i \in 1..MaxTokens }

\* Optional token: None is <<"None", 0>> so that tokens compare with None
NoToken == <<"None", 0>>

HasToken(t) == t /= NoToken

\* the body of a 403 answer of the identity service
ErrorBody == "{'error': 'invalid_grant'}"

\* the value a method hands back: tag in
\*   "False", "True", "None", "json", "id", "ids", "usage", "response",
\*   "path", "raise"; val is a record of what the tag stands for
Ret(tag, val) == [tag |-> tag, val |-> val]

\* nothing more than the tag
NoVal == [none |-> None]

RetFalse == Ret("False", NoVal)

RetTrue == Ret("True", NoVal)

RetNone == Ret("None", NoVal)

Raise(exc, msg) == Ret("raise", [exc |-> exc, msg |-> msg])

\* Python truthiness of a returned value
RetTruthy(r) ==
    CASE r.tag \in {"False", "None"} -> FALSE
      [] r.tag = "json" -> r.val.shape /= "empty"
      [] OTHER -> TRUE

\* one request on the wire and its answer: the endpoint, what was asked for,
\* the bearer token of the Authorization header, the status of the answer
\* and, where the caller keeps it, the answer's content
Request(endpoint, arg, bearer, status, got) ==
    [endpoint |-> endpoint, arg |-> arg, bearer |-> bearer, status |-> status, got |-> got]

\* the outcome of a call on the session
Outcome(a, ret, sent) == [auth |-> a, ret |-> ret, sent |-> sent]

----------------------------------------------------------------------------
(* The remote services *)

Services == {"accepts", "rejects", "arbitrary"}

\* answers of the credential exchange: a 403 with its error body, a success
\* with an access_token, or a non-403 answer whose body has no access_token
Answers403 ==
    { [status |-> 403, json |-> b, access_token |-> NoToken] : b \in {ErrorBody, EmptyDict} }

AnswersToken ==
    { [status |-> 200, json |-> "{'access_token': ...}", access_token |-> t] : t \in Tokens }

AnswersNoToken ==
    { [status |-> s, json |-> EmptyDict, access_token |-> NoToken] : s \in {200, 500} }

\* an invalid key is always answered 403 with a non-empty error body, a valid
\* key always with an access_token
TokenAnswers ==
    CASE service = "rejects" -> { a \in Answers403 : a.json = ErrorBody }
      [] service = "accepts" -> AnswersToken
      [] OTHER -> Answers403 \cup AnswersToken \cup AnswersNoToken

\* answers of test_api_token's endpoint
TestAnswers ==
    CASE service = "rejects" -> { a \in Answers403 : a.json = ErrorBody }
      [] service = "accepts" -> { [status |-> 200, json |-> EmptyDict, access_token |-> NoToken] }
      [] OTHER -> Answers403 \cup { [status |-> 200, json |-> EmptyDict, access_token |-> NoToken] }

\* a JSON body of a data endpoint: shape "empty" is {}, the only falsy one
Body(shape, id, items) == [shape |-> shape, id |-> id, items |-> items]

Forbidden == [status |-> 403, json |-> Body("empty", None, <<>>)]

RolesAnswers ==
    { Forbidden, [status |-> 200, json |-> Body("roles", None, <<>>)] }

\* /api/v1/me: the profile with its contract id, with contract None, without
\* the contract key, or an empty object
MeAnswers ==
    { Forbidden,
      [status |-> 200, json |-> Body("full", "c1", <<>>)],
      [status |-> 200, json |-> Body("contract_none", None, <<>>)],
      [status |-> 200, json |-> Body("no_contract_key", None, <<>>)],
      [status |-> 404, json |-> Body("empty", None, <<>>)] }

\* one subscription: its amountConsumed and amountMax (0 is falsy)
Subscription(c, m) == [amountConsumed |-> c, amountMax |-> m]

SubscriptionsAnswers ==
    { Forbidden,
      [status |-> 200, json |-> Body("items", None, <<>>)],
      [status |-> 200, json |-> Body("items", None, <<Subscription(0, 10), Subscription(3, 10)>>)],
      [status |-> 200, json |-> Body("no_items_key", None, <<>>)] }

\* one contract of /api/v1/contracts
Contract(id) == [contractId |-> id]

ContractsAnswers ==
    { Forbidden,
      [status |-> 200, json |-> Body("contracts", None, <<>>)],
      [status |-> 200, json |-> Body("contracts", None, <<Contract("k1"), Contract("k2")>>)],
      [status |-> 200, json |-> Body("no_contracts_key", None, <<>>)] }

----------------------------------------------------------------------------
(* auth.py: Authentication *)

\* __init__: token and errors start as None
Authentication == [token |-> NoToken, errors |-> None]

\* get_token testing for the wrong status: a 403 is taken for a success
get_token_on_401(s, a) ==
    IF a.status = 401
    THEN Outcome([s EXCEPT !.errors = a.json], RetFalse,
                 <<Request("token", None, NoToken, a.status, a)>>)
    ELSE Outcome([s EXCEPT !.token = a.access_token], RetTrue,
                 <<Request("token", None, NoToken, a.status, a)>>)

\* get_token that returns True without keeping the access_token
get_token_on_unkept(s, a) ==
    IF a.status = 403
    THEN Outcome([s EXCEPT !.errors = a.json], RetFalse,
                 <<Request("token", None, NoToken, a.status, a)>>)
    ELSE Outcome(s, RetTrue, <<Request("token", None, NoToken, a.status, a)>>)

\* get_token, given the answer of the credential exchange
get_token_on(s, a) ==
    IF a.status = 403
    THEN Outcome([s EXCEPT !.errors = a.json], RetFalse,
                 <<Request("token", None, NoToken, a.status, a)>>)
    ELSE Outcome([s EXCEPT !.token = a.access_token], RetTrue,
                 <<Request("token", None, NoToken, a.status, a)>>)

get_token(s) == { get_token_on(s, a) : a \in TokenAnswers }

\* test_api_token: only a 403 is recorded, in errors
test_api_token(s) ==
    { IF a.status = 403
      THEN Outcome([s EXCEPT !.errors = a.json], RetNone,
                   <<Request("test_token", None, NoToken, a.status, a)>>)
      ELSE Outcome(s, RetTrue, <<Request("test_token", None, NoToken, a.status, a)>>)
      : a \in TestAnswers }

\* authentication on every call, whether or not a token is held
lazy_auth_eager(s) == get_token(s)

\* "if not self.token: token = self.get_token()": the outcomes of the lazy
\* authentication every dependent getter starts with
lazy_auth(s) ==
    IF ~HasToken(s.token) THEN get_token(s) ELSE { Outcome(s, RetTrue, <<>>) }

\* the authenticated GET the getters end with: 403 gives False, anything
\* else the decoded body
auth_get(o, endpoint, arg, answers) ==
    { Outcome(o.auth,
              IF a.status = 403 THEN RetFalse ELSE Ret("json", a.json),
              Append(o.sent, Request(endpoint, arg, o.auth.token, a.status, [json |-> a.json])))
      : a \in answers }

\* a getter that goes on to its GET although the authentication failed
getter_unchecked(s, endpoint, answers) ==
    UNION { auth_get(o, endpoint, None, answers) : o \in lazy_auth(s) }

\* a getter: lazy authentication, "if not token: return False", then the GET
getter(s, endpoint, answers) ==
    UNION { IF ~RetTruthy(o.ret)
            THEN { Outcome(o.auth, RetFalse, o.sent) }
            ELSE auth_get(o, endpoint, None, answers)
            : o \in lazy_auth(s) }

get_roles(s) == getter(s, "services", RolesAnswers)

get_me(s) == getter(s, "me", MeAnswers)

get_cis_contracts(s) == getter(s, "contracts", ContractsAnswers)

\* get_contract_id: None unless the profile has a contract with an id;
\* a profile without the 'contract' key is a KeyError
get_contract_id(s) ==
    { LET info == o.ret IN
      IF ~RetTruthy(info) THEN Outcome(o.auth, RetNone, o.sent)
      ELSE IF info.val.shape = "no_contract_key"
           THEN Outcome(o.auth, Raise("KeyError", "contract"), o.sent)
      ELSE IF ~Truthy(info.val.id) THEN Outcome(o.auth, RetNone, o.sent)
      ELSE Outcome(o.auth, Ret("id", [id |-> info.val.id]), o.sent)
      : o \in get_me(s) }

\* after a call made inside a method: what was sent so far comes first
after(first, o) == Outcome(o.auth, o.ret, first.sent \o o.sent)

\* get_all_subscriptions: lazy authentication, the contract id, then the GET
\* of that contract's subscriptions
get_all_subscriptions(s) ==
    UNION { IF ~RetTruthy(o.ret)
            THEN { Outcome(o.auth, RetFalse, o.sent) }
            ELSE UNION { LET c == after(o, c0) IN
                         IF c.ret.tag = "raise" THEN { c }
                         ELSE auth_get(c, "subscriptions",
                                       IF c.ret.tag = "id" THEN c.ret.val.id ELSE None,
                                       SubscriptionsAnswers)
                         : c0 \in get_contract_id(o.auth) }
            : o \in lazy_auth(s) }

RECURSIVE first_limited(_)
\* the first subscription, in list order, with amountConsumed and amountMax
first_limited(items) ==
    IF items = <<>> THEN <<>>
    ELSE IF Head(items).amountConsumed /= 0 /\ Head(items).amountMax /= 0
         THEN <<Head(items)>>
         ELSE first_limited(Tail(items))

\* get_usage: user_subscriptions['items'] of whatever get_all_subscriptions
\* returned, then the first limited subscription or a ValueError
get_usage(s) ==
    { IF o.ret.tag = "raise" THEN o
      ELSE IF o.ret.tag = "False"
           THEN Outcome(o.auth, Raise("TypeError", "'bool' object is not subscriptable"), o.sent)
      ELSE IF o.ret.val.shape /= "items"
           THEN Outcome(o.auth, Raise("KeyError", "items"), o.sent)
      ELSE LET found == first_limited(o.ret.val.items) IN
           IF found = <<>>
           THEN Outcome(o.auth, Raise("ValueError", "There is no limited subscription for this user"), o.sent)
           ELSE Outcome(o.auth, Ret("usage", found[1]), o.sent)
      : o \in get_all_subscriptions(s) }

----------------------------------------------------------------------------
(* api.py, geostore.py, oneatlas.py, tasking.py: the Api classes *)

ApiKinds == {"AbstractApi", "Geostore", "OneAtlas", "Tasking"}

\* the classes with get_image_data and get_image_path
ImageKinds == {"Geostore", "OneAtlas"}

\* __init__ that copies the token whatever errors holds
Api_init_unchecked(kind) ==
    { [auth |-> o.auth, api |-> [kind |-> kind, token |-> o.auth.token],
       ret |-> RetNone, sent |-> o.sent]
      : o \in get_token(Authentication) }

\* __init__: a new Authentication, get_token(), then the token is copied
\* unless errors is truthy, which is a ValueError carrying the errors
Api_init(kind) ==
    { IF ~Truthy(o.auth.errors)
      THEN [auth |-> o.auth, api |-> [kind |-> kind, token |-> o.auth.token],
            ret |-> RetNone, sent |-> o.sent]
      ELSE [auth |-> o.auth, api |-> [kind |-> "none", token |-> NoToken],
            ret |-> Raise("ValueError", o.auth.errors), sent |-> o.sent]
      : o \in get_token(Authentication) }

\* requests.Response.ok, which is also the truth value of a Response
Ok(response) == response.status < 400

ImageAnswers ==
    { [status |-> 200, content |-> "imgA"],
      [status |-> 200, content |-> "imgB"],
      [status |-> 404, content |-> "not found"] }

\* the outcome of a call on the Api that leaves the session alone
ApiOutcome(ret, sent, fs) == [ret |-> ret, sent |-> sent, files |-> fs]

\* get_image_data that hands back the response whatever its status
get_image_data_unchecked(a, fs, preview_url) ==
    IF preview_url = None
    THEN { ApiOutcome(Raise("MissingSchema", "Invalid URL"), <<>>, fs) }
    ELSE { ApiOutcome(Ret("response", r),
                      <<Request("image", preview_url, a.token, r.status, [content |-> r.content])>>, fs)
           : r \in ImageAnswers }

\* get_image_data: the image GET with the Api's token; the response when it
\* is ok, otherwise None.  Without a URL requests raises before sending.
get_image_data(a, fs, preview_url) ==
    IF preview_url = None
    THEN { ApiOutcome(Raise("MissingSchema", "Invalid URL"), <<>>, fs) }
    ELSE { ApiOutcome(IF Ok(r) THEN Ret("response", r) ELSE RetNone,
                      <<Request("image", preview_url, a.token, r.status, [content |-> r.content])>>, fs)
           : r \in ImageAnswers }

\* a feature: py is "None", "{}" (falsy) or "dict"; quicklooks are
\* [size, image] records (Geostore); href is _links.thumbnail.href (OneAtlas)
Feature(py, quicklooks, href) == [py |-> py, quicklooks |-> quicklooks, href |-> href]

NoFeature == Feature("None", <<>>, None)

Quicklook(size, image) == [size |-> size, image |-> image]

FeatureTruthy(f) == f.py = "dict"

\* the last quicklook of the size instead of the first
last_of_size(quicklooks, img_size) ==
    LET ms == { i \in 1..Len(quicklooks) : quicklooks[i].size = img_size } IN
    IF ms = {} THEN <<>>
    ELSE <<quicklooks[CHOOSE i \in ms : \A j \in ms : j <= i]>>

RECURSIVE first_of_size(_, _)
\* next(filter(lambda x: x.get("size") == img_size, quicklooks))
first_of_size(quicklooks, img_size) ==
    IF quicklooks = <<>> THEN <<>>
    ELSE IF Head(quicklooks).size = img_size THEN <<Head(quicklooks)>>
         ELSE first_of_size(Tail(quicklooks), img_size)

\* the URL get_image_path asks for: <<url>>, or <<>> when next() finds no
\* quicklook of the size (StopIteration)
image_url(kind, feature, preview_url, img_size) ==
    IF ~FeatureTruthy(feature) THEN <<preview_url>>
    ELSE IF kind = "Geostore"
         THEN LET q == first_of_size(feature.quicklooks, img_size) IN
              IF q = <<>> THEN <<>> ELSE <<q[1].image>>
         ELSE <<feature.href>>

\* failures of the file system while the image is saved: open() fails and
\* no file is touched, or write() fails after open() truncated the file
WriteFaults == {"none", "open", "write"}

\* str(exc) of the error open() or write() fails with
ErrorText(fault) ==
    IF fault = "open" THEN "[Errno 13] Permission denied"
    ELSE "[Errno 28] No space left on device"

\* raise ValueError("Error while writing image: {}".format(exc))
writing_error(fault) == Raise("ValueError", "Error while writing image: " \o ErrorText(fault))

\* saving the image with "except Exception: return None"
save_image_silent(o) ==
    IF o.ret.tag /= "response" THEN { ApiOutcome(RetNone, o.sent, o.files) }
    ELSE { CASE fault = "none" ->
                  ApiOutcome(Ret("path", [name |-> n, ext |-> ".jpg"]), o.sent,
                             [o.files EXCEPT ![n] = o.ret.val.content])
             [] fault = "open" -> ApiOutcome(RetNone, o.sent, o.files)
             [] OTHER -> ApiOutcome(RetNone, o.sent, [o.files EXCEPT ![n] = ""])
           : n \in 1..MaxNames, fault \in WriteFaults }

\* "if response and response.ok": a candidate name is drawn, the file is
\* opened for writing and the content written; any failure is re-raised as
\* a ValueError that carries the text of the failure
save_image(o) ==
    IF o.ret.tag /= "response" THEN { ApiOutcome(RetNone, o.sent, o.files) }
    ELSE { CASE fault = "none" ->
                  ApiOutcome(Ret("path", [name |-> n, ext |-> ".jpg"]), o.sent,
                             [o.files EXCEPT ![n] = o.ret.val.content])
             [] fault = "open" ->
                  ApiOutcome(writing_error(fault), o.sent, o.files)
             [] OTHER ->
                  ApiOutcome(writing_error(fault), o.sent, [o.files EXCEPT ![n] = ""])
           : n \in 1..MaxNames, fault \in WriteFaults }

\* get_image_path that fetches the preview_url and looks at its arguments
\* only afterwards
get_image_path_late_check(a, fs, feature, preview_url, img_size) ==
    IF FeatureTruthy(feature) /\ Truthy(preview_url)
    THEN { ApiOutcome(Raise("ValueError", "Both feature and preview_url is not allowed"),
                      o.sent, fs)
           : o \in get_image_data(a, fs, preview_url) }
    ELSE LET url == image_url(a.kind, feature, preview_url, img_size) IN
         IF url = <<>>
         THEN { ApiOutcome(Raise("StopIteration", ""), <<>>, fs) }
         ELSE UNION { IF o.ret.tag = "raise" THEN { o } ELSE save_image(o)
                      : o \in get_image_data(a, fs, url[1]) }

\* get_image_path: both arguments is a ValueError; otherwise the image of the
\* feature or of the URL is fetched and saved
get_image_path(a, fs, feature, preview_url, img_size) ==
    IF FeatureTruthy(feature) /\ Truthy(preview_url)
    THEN { ApiOutcome(Raise("ValueError", "Both feature and preview_url is not allowed"), <<>>, fs) }
    ELSE LET url == image_url(a.kind, feature, preview_url, img_size) IN
         IF url = <<>>
         THEN { ApiOutcome(Raise("StopIteration", ""), <<>>, fs) }
         ELSE UNION { IF o.ret.tag = "raise" THEN { o } ELSE save_image(o)
                      : o \in get_image_data(a, fs, url[1]) }

\* tasking.py get_cis_contract_ids: contracts['contracts'] of whatever
\* get_cis_contracts returned; the contract ids, or False for an empty list
get_cis_contract_ids(s) ==
    { IF o.ret.tag = "False"
      THEN Outcome(o.auth, Raise("TypeError", "'bool' object is not subscriptable"), o.sent)
      ELSE IF o.ret.val.shape /= "contracts"
           THEN Outcome(o.auth, Raise("KeyError", "contracts"), o.sent)
      ELSE IF o.ret.val.items = <<>> THEN Outcome(o.auth, RetFalse, o.sent)
      ELSE Outcome(o.auth,
                   Ret("ids", [ids |-> [i \in 1..Len(o.ret.val.items) |-> o.ret.val.items[i].contractId]]),
                   o.sent)
      : o \in get_cis_contracts(s) }

\* str(exc): a KeyError shows its key quoted, the others their message
str_exc(r) == IF r.val.exc = "KeyError" THEN "'" \o r.val.msg \o "'" ELSE r.val.msg

\* the requests.models.Response get_data_usage builds: its status_code and
\* the dict its content encodes
UsageResponse(usage) ==
    Ret("response", [status |-> 200,
                     data |-> [consumed |-> usage.amountConsumed, max |-> usage.amountMax]])

NoUsageResponse(r) ==
    Ret("response", [status |-> 404,
                     data |-> [error |-> "no_limited_subscriptions", error_description |-> str_exc(r)]])

\* get_data_usage whose except clause names ValueError only
get_data_usage_value_error(s) ==
    { IF o.ret.tag = "raise"
      THEN IF o.ret.val.exc = "ValueError" THEN Outcome(o.auth, NoUsageResponse(o.ret), o.sent) ELSE o
      ELSE Outcome(o.auth, UsageResponse(o.ret.val), o.sent)
      : o \in get_usage(s) }

\* oneatlas.py get_data_usage: auth.get_usage() inside "try"; "except
\* Exception" turns whatever it raised into the 404 response
get_data_usage(s) ==
    { IF o.ret.tag = "raise"
      THEN Outcome(o.auth, NoUsageResponse(o.ret), o.sent)
      ELSE Outcome(o.auth, UsageResponse(o.ret.val), o.sent)
      : o \in get_usage(s) }

----------------------------------------------------------------------------
(* Python values of the payload builders *)

\* A value is a record whose one field names its type.  A str is the
\* sequence of its pieces: a piece is one punctuation character, one digit,
\* or a whole word of letters and underscores.
PyNone == [none |-> None]

PyInt(n) == [int |-> n]

\* the float n.0
PyFloat(n) == [float |-> n]

PyStr(s) == [str |-> s]

PyList(l) == [list |-> l]

PyBool(b) == [bool |-> b]

Is(v, type) == type \in DOMAIN v

\* the truth value "if v:" tests
PyTruthy(v) ==
    CASE Is(v, "none") -> FALSE
      [] Is(v, "int") -> v.int /= 0
      [] Is(v, "float") -> v.float /= 0
      [] Is(v, "str") -> v.str /= <<>>
      [] Is(v, "list") -> v.list /= <<>>
      [] Is(v, "bool") -> v.bool

DigitChars == <<"0", "1", "2", "3", "4", "5", "6", "7", "8", "9">>

RECURSIVE Digits(_)
\* the decimal digits of a natural number
Digits(n) ==
    IF n < 10 THEN <<DigitChars[n + 1]>>
    ELSE Digits(n \div 10) \o <<DigitChars[(n % 10) + 1]>>

\* what "{}".format(v) puts in place of the braces: str(v)
format(v) ==
    CASE Is(v, "none") -> <<"None">>
      [] Is(v, "int") -> Digits(v.int)
      [] Is(v, "float") -> Digits(v.float) \o <<".", "0">>
      [] Is(v, "str") -> v.str
      [] Is(v, "bool") -> IF v.bool THEN <<"True">> ELSE <<"False">>

RECURSIVE join(_, _)
\* sep.join(strs) of a list of str
join(sep, strs) ==
    IF strs = <<>> THEN <<>>
    ELSE IF Len(strs) = 1 THEN strs[1].str
    ELSE strs[1].str \o sep \o join(sep, Tail(strs))

\* '[{},{}['.format(*value_list) with a reversed pair
included_values_swapped(value_list) ==
    IF Len(value_list) < 2
    THEN Raise("IndexError", "Replacement index 1 out of range")
    ELSE Ret("str", PyStr(<<"[">> \o format(value_list[2]) \o <<",">>
                          \o format(value_list[1]) \o <<"[">>))

\* api.py _get_included_values: '[{},{}['.format(*value_list); values after
\* the second are ignored, a missing one is an IndexError
_get_included_values(value_list) ==
    IF Len(value_list) < 2
    THEN Raise("IndexError", "Replacement index 1 out of range")
    ELSE Ret("str", PyStr(<<"[">> \o format(value_list[1]) \o <<",">>
                          \o format(value_list[2]) \o <<"[">>))

\* geostore.py __get_dates: "[{},{}[".format(*date_list)
__get_dates(date_list) ==
    IF Len(date_list) < 2
    THEN Raise("IndexError", "Replacement index 1 out of range")
    ELSE Ret("str", PyStr(<<"[">> \o format(date_list[1]) \o <<",">>
                          \o format(date_list[2]) \o <<"[">>))

\* '{}]'.format(value): the bracket of an excluded bound
less_than_closed(value) == Ret("str", PyStr(format(value) \o <<"]">>))

\* api.py _get_less_than_or_equals: '{}['.format(value)
_get_less_than_or_equals(value) == Ret("str", PyStr(format(value) \o <<"[">>))

\* geostore.py __get_less_than_or_equals: "{}[".format(data)
__get_less_than_or_equals(data) == Ret("str", PyStr(format(data) \o <<"[">>))

\* __get_sort_keys that leaves the "-" on the key
get_sort_keys_unstripped(sort_key) ==
    LET given == PyTruthy(sort_key)
        desc == given /\ Head(sort_key.str) = "-"
        key == IF given /\ sort_key.str = <<"cloud_rate">>
               THEN <<"cloudCover">> ELSE <<"acquisitionDate">>
    IN Ret("str", PyStr(key \o <<",", ",">> \o <<IF desc THEN "0" ELSE "1">>))

\* geostore.py __get_sort_keys: "-" first means order "0" and is cut off;
\* "cloud_rate" is cloudCover, every other key acquisitionDate
__get_sort_keys(sort_key) ==
    LET given == PyTruthy(sort_key)
        desc == given /\ Head(sort_key.str) = "-"
        rest == IF desc THEN Tail(sort_key.str) ELSE sort_key.str
        key == IF given /\ rest = <<"cloud_rate">>
               THEN <<"cloudCover">> ELSE <<"acquisitionDate">>
    IN Ret("str", PyStr(key \o <<",", ",">> \o <<IF desc THEN "0" ELSE "1">>))

\* a dict (also the keyword arguments of a call): a function on its keys
EmptyPayload == [k \in {} |-> PyNone]

\* payload[k] = v
Put(payload, k, v) ==
    [x \in DOMAIN payload \cup {k} |-> IF x = k THEN v ELSE payload[x]]

\* if c: payload[k] = v
PutIf(c, payload, k, v) == IF c THEN Put(payload, k, v) ELSE payload

\* the value of a parameter: the keyword argument, or the default
Arg(kwargs, defaults, k) == IF k \in DOMAIN kwargs THEN kwargs[k] ELSE defaults[k]

\* the defaults of the Geostore get_payload
GeostoreDefaults ==
    [bbox |-> PyList(<<>>), constellation |-> PyList(<<>>),
     acquisition_date_range |-> PyList(<<>>), polarisation_channels |-> PyList(<<>>),
     product_type |-> PyList(<<>>), resolution |-> PyNone, geometry |-> PyNone,
     cloud_cover |-> PyNone, snow_cover |-> PyNone, incidence_angle |-> PyNone,
     sensor_type |-> PyNone, antenna_look_direction |-> PyNone,
     orbit_direction |-> PyNone, count |-> PyInt(20), start_page |-> PyInt(1),
     sort_key |-> PyStr(<<"-", "date">>)]

\* the Geostore get_payload without the three entries it starts with: count
\* and startPage only when they are truthy
Geostore_get_payload_optional_paging(kwargs) ==
    LET a(k) == Arg(kwargs, GeostoreDefaults, k)
        dates == __get_dates(a("acquisition_date_range").list)
        p0 == Put(EmptyPayload, "sortKeys", __get_sort_keys(a("sort_key")).val)
        p1 == PutIf(PyTruthy(a("geometry")), p0, "geometry", a("geometry"))
        p2 == PutIf(PyTruthy(a("bbox")), p1, "bbox", a("bbox"))
        p3 == PutIf(PyTruthy(a("constellation")), p2, "constellation", a("constellation"))
        p4 == PutIf(PyTruthy(a("acquisition_date_range")), p3, "acquisitionDate", dates.val)
        p5 == PutIf(PyTruthy(a("polarisation_channels")), p4,
                    "polarisationChannels", a("polarisation_channels"))
        p6 == PutIf(PyTruthy(a("product_type")), p5, "productType", a("product_type"))
        p7 == PutIf(PyTruthy(a("resolution")), p6, "resolution",
                    __get_less_than_or_equals(a("resolution")).val)
        p8 == PutIf(PyTruthy(a("cloud_cover")), p7, "cloudCover",
                    __get_less_than_or_equals(a("cloud_cover")).val)
        p9 == PutIf(PyTruthy(a("snow_cover")), p8, "snowCover",
                    __get_less_than_or_equals(a("snow_cover")).val)
        p10 == PutIf(PyTruthy(a("incidence_angle")), p9, "incidenceAngle",
                     __get_less_than_or_equals(a("incidence_angle")).val)
        p11 == PutIf(PyTruthy(a("sensor_type")), p10, "sensorType", a("sensor_type"))
        p12 == PutIf(PyTruthy(a("antenna_look_direction")), p11,
                     "antennaLookDirection", a("antenna_look_direction"))
        p13 == PutIf(PyTruthy(a("orbit_direction")), p12, "orbitDirection", a("orbit_direction"))
        p14 == PutIf(PyTruthy(a("count")), p13, "count", a("count"))
        p15 == PutIf(PyTruthy(a("start_page")), p14, "startPage", a("start_page"))
    IN IF PyTruthy(a("acquisition_date_range")) /\ dates.tag = "raise" THEN dates
       ELSE Ret("payload", [payload |-> p15])

\* geostore.py get_payload: count, startPage 1 and the sort keys, then one
\* entry for every parameter that is truthy
Geostore_get_payload(kwargs) ==
    LET a(k) == Arg(kwargs, GeostoreDefaults, k)
        dates == __get_dates(a("acquisition_date_range").list)
        p0 == Put(Put(Put(EmptyPayload, "count", a("count")), "startPage", PyInt(1)),
                  "sortKeys", __get_sort_keys(a("sort_key")).val)
        p1 == PutIf(PyTruthy(a("geometry")), p0, "geometry", a("geometry"))
        p2 == PutIf(PyTruthy(a("bbox")), p1, "bbox", a("bbox"))
        p3 == PutIf(PyTruthy(a("constellation")), p2, "constellation", a("constellation"))
        p4 == PutIf(PyTruthy(a("acquisition_date_range")), p3, "acquisitionDate", dates.val)
        p5 == PutIf(PyTruthy(a("polarisation_channels")), p4,
                    "polarisationChannels", a("polarisation_channels"))
        p6 == PutIf(PyTruthy(a("product_type")), p5, "productType", a("product_type"))
        p7 == PutIf(PyTruthy(a("resolution")), p6, "resolution",
                    __get_less_than_or_equals(a("resolution")).val)
        p8 == PutIf(PyTruthy(a("cloud_cover")), p7, "cloudCover",
                    __get_less_than_or_equals(a("cloud_cover")).val)
        p9 == PutIf(PyTruthy(a("snow_cover")), p8, "snowCover",
                    __get_less_than_or_equals(a("snow_cover")).val)
        p10 == PutIf(PyTruthy(a("incidence_angle")), p9, "incidenceAngle",
                     __get_less_than_or_equals(a("incidence_angle")).val)
        p11 == PutIf(PyTruthy(a("sensor_type")), p10, "sensorType", a("sensor_type"))
        p12 == PutIf(PyTruthy(a("antenna_look_direction")), p11,
                     "antennaLookDirection", a("antenna_look_direction"))
        p13 == PutIf(PyTruthy(a("orbit_direction")), p12, "orbitDirection", a("orbit_direction"))
        p14 == PutIf(PyTruthy(a("count")), p13, "count", a("count"))
        p15 == PutIf(PyTruthy(a("start_page")), p14, "startPage", a("start_page"))
    IN IF PyTruthy(a("acquisition_date_range")) /\ dates.tag = "raise" THEN dates
       ELSE Ret("payload", [payload |-> p15])

\* the defaults of the OneAtlas get_payload
OneAtlasDefaults ==
    [bbox |-> PyList(<<>>), geometry |-> PyNone,
     acquisition_date_range |-> PyList(<<>>), publication_date_range |-> PyList(<<>>),
     cloud_cover |-> PyFloat(100), snow_cover |-> PyFloat(100),
     commercial_reference |-> PyNone,
     constellation |-> PyList(<<PyStr(<<"PHR">>), PyStr(<<"SPOT">>), PyStr(<<"PNEO">>)>>),
     incidence_angle |-> PyNone, parent_idenfifier |-> PyNone,
     platform |-> PyList(<<>>), product_type |-> PyList(<<>>),
     production_status |-> PyList(<<>>), resolution |-> PyNone,
     source_identifier |-> PyNone, workspace |-> PyNone,
     processing_level |-> PyList(<<PyStr(<<"SENSOR">>), PyStr(<<"ALBUM">>)>>),
     count |-> PyInt(20), start_page |-> PyInt(1),
     sort_key |-> PyStr(<<"-", "acquisitionDate", ",", "cloudCover">>)]

\* ','.join(str(point) for point in bbox)
joined_points(bbox) ==
    PyStr(join(<<",">>, [i \in 1..Len(bbox.list) |-> PyStr(format(bbox.list[i]))]))

\* ','.join(names) of a list of str
joined(names) == PyStr(join(<<",">>, names.list))

\* oneatlas.py get_payload: itemsPerPage, startPage and sortBy as given,
\* then one entry for every parameter that is truthy
OneAtlas_get_payload(kwargs) ==
    LET a(k) == Arg(kwargs, OneAtlasDefaults, k)
        acquired == _get_included_values(a("acquisition_date_range").list)
        published == _get_included_values(a("publication_date_range").list)
        p0 == Put(Put(Put(EmptyPayload, "itemsPerPage", a("count")),
                      "startPage", a("start_page")), "sortBy", a("sort_key"))
        p1 == PutIf(PyTruthy(a("bbox")), p0, "bbox",
                    IF Is(a("bbox"), "list") THEN joined_points(a("bbox")) ELSE a("bbox"))
        p2 == PutIf(PyTruthy(a("geometry")), p1, "geometry", a("geometry"))
        p3 == PutIf(PyTruthy(a("incidence_angle")), p2, "incidenceAngle",
                    _get_less_than_or_equals(a("incidence_angle")).val)
        p4 == PutIf(PyTruthy(a("acquisition_date_range")), p3, "acquisitionDate", acquired.val)
        p5 == PutIf(PyTruthy(a("publication_date_range")), p4, "publicationDate", published.val)
        p6 == PutIf(PyTruthy(a("cloud_cover")), p5, "cloudCover",
                    _get_less_than_or_equals(a("cloud_cover")).val)
        p7 == PutIf(PyTruthy(a("snow_cover")), p6, "snowCover",
                    _get_less_than_or_equals(a("snow_cover")).val)
        p8 == PutIf(PyTruthy(a("commercial_reference")), p7,
                    "commercialReference", a("commercial_reference"))
        p9 == PutIf(PyTruthy(a("parent_idenfifier")), p8,
                    "parentIdenfifier", a("parent_idenfifier"))
        p10 == PutIf(PyTruthy(a("constellation")) /\ Is(a("constellation"), "list"), p9,
                     "constellation", joined(a("constellation")))
        p11 == PutIf(PyTruthy(a("platform")), p10, "platform", joined(a("platform")))
        p12 == PutIf(PyTruthy(a("product_type")), p11, "productType", joined(a("product_type")))
        p13 == PutIf(PyTruthy(a("source_identifier")), p12,
                     "sourceIdentifier", a("source_identifier"))
        p14 == PutIf(PyTruthy(a("workspace")), p13, "workspace", a("workspace"))
        p15 == PutIf(PyTruthy(a("processing_level")), p14,
                     "processingLevel", joined(a("processing_level")))
        p16 == PutIf(PyTruthy(a("production_status")), p15,
                     "productionStatus", joined(a("production_status")))
        p17 == PutIf(PyTruthy(a("resolution")), p16, "resolution",
                     _get_less_than_or_equals(a("resolution")).val)
    IN IF PyTruthy(a("acquisition_date_range")) /\ acquired.tag = "raise" THEN acquired
       ELSE IF PyTruthy(a("publication_date_range")) /\ published.tag = "raise" THEN published
       ELSE Ret("payload", [payload |-> p17])

\* the defaults of the HEADFinder get_payload
HEADFinderDefaults ==
    [bbox |-> PyNone, geometry |-> PyNone, satellites |-> PyNone, scene_id |-> PyNone,
     scene_id_exact_match |-> PyBool(TRUE), max_scenes |-> PyInt(50),
     start_date |-> PyNone, end_date |-> PyNone,
     cloud_cover |-> PyInt(100), incidence_angle |-> PyInt(60)]

\* f'rectangle(({bbox[1]},{bbox[0]}),({bbox[3]},{bbox[2]}))'
rectangle(bbox) ==
    PyStr(<<"rectangle", "(", "(">> \o format(bbox.list[2]) \o <<",">> \o format(bbox.list[1])
          \o <<")", ",", "(">> \o format(bbox.list[4]) \o <<",">> \o format(bbox.list[3])
          \o <<")", ")">>)

\* f'${satellites}$' of '$'.join(satellites)
dollars(satellites) == PyStr(<<"$">> \o join(<<"$">>, satellites.list) \o <<"$">>)

\* get_payload that passes any truthy max_scenes on
HEADFinder_get_payload_uncapped(user_key, kwargs) ==
    LET a(k) == Arg(kwargs, HEADFinderDefaults, k)
        p0 == Put(Put(Put(Put(EmptyPayload, "req", PyStr(<<"d", "0", "1">>)),
                          "category", PyStr(<<"searchapi", "-", "0", "1">>)),
                      "user", user_key), "overlapmin", PyInt(10))
        p1 == IF PyTruthy(a("geometry")) THEN Put(p0, "aoi", a("geometry"))
              ELSE PutIf(PyTruthy(a("bbox")), p0, "aoi", rectangle(a("bbox")))
        p2 == PutIf(PyTruthy(a("satellites")), p1, "satellites", dollars(a("satellites")))
        p3 == PutIf(PyTruthy(a("scene_id")), p2, "scenename", a("scene_id"))
        p4 == Put(p3, "scenenamematch",
                  IF Is(a("scene_id_exact_match"), "none") \/ a("scene_id_exact_match") = PyBool(TRUE)
                  THEN PyStr(<<"exact">>) ELSE PyStr(<<"partial">>))
        p5 == Put(p4, "maxscenes",
                  IF PyTruthy(a("max_scenes")) THEN a("max_scenes") ELSE PyInt(50))
        p6 == PutIf(PyTruthy(a("start_date")), p5, "datestart", a("start_date"))
        p7 == PutIf(PyTruthy(a("end_date")), p6, "dateend", a("end_date"))
        p8 == PutIf(PyTruthy(a("cloud_cover")), p7, "cloudmax", a("cloud_cover"))
        p9 == PutIf(PyTruthy(a("incidence_angle")), p8, "offnadirmax", a("incidence_angle"))
    IN Ret("payload", [payload |-> p9])

\* search_api.py get_payload: the four fixed entries, the match mode and
\* maxscenes always, the other entries for the parameters that are truthy
HEADFinder_get_payload(user_key, kwargs) ==
    LET a(k) == Arg(kwargs, HEADFinderDefaults, k)
        p0 == Put(Put(Put(Put(EmptyPayload, "req", PyStr(<<"d", "0", "1">>)),
                          "category", PyStr(<<"searchapi", "-", "0", "1">>)),
                      "user", user_key), "overlapmin", PyInt(10))
        p1 == IF PyTruthy(a("geometry")) THEN Put(p0, "aoi", a("geometry"))
              ELSE PutIf(PyTruthy(a("bbox")), p0, "aoi", rectangle(a("bbox")))
        p2 == PutIf(PyTruthy(a("satellites")), p1, "satellites", dollars(a("satellites")))
        p3 == PutIf(PyTruthy(a("scene_id")), p2, "scenename", a("scene_id"))
        p4 == Put(p3, "scenenamematch",
                  IF Is(a("scene_id_exact_match"), "none") \/ a("scene_id_exact_match") = PyBool(TRUE)
                  THEN PyStr(<<"exact">>) ELSE PyStr(<<"partial">>))
        p5 == Put(p4, "maxscenes",
                  IF PyTruthy(a("max_scenes")) /\ a("max_scenes").int <= 50
                  THEN a("max_scenes") ELSE PyInt(50))
        p6 == PutIf(PyTruthy(a("start_date")), p5, "datestart", a("start_date"))
        p7 == PutIf(PyTruthy(a("end_date")), p6, "dateend", a("end_date"))
        p8 == PutIf(PyTruthy(a("cloud_cover")), p7, "cloudmax", a("cloud_cover"))
        p9 == PutIf(PyTruthy(a("incidence_angle")), p8, "offnadirmax", a("incidence_angle"))
    IN Ret("payload", [payload |-> p9])

\* the characters of a token, or 'None' when the Api holds none
TokenStr(t) == IF HasToken(t) THEN <<"tok">> \o Digits(t[2]) ELSE <<"None">>

\* a header builder that leaves the token out of the Authorization entry
headers_without_token(a) ==
    Ret("headers", [headers |->
        Put(Put(Put(EmptyPayload, "Authorization", PyStr(<<"Bearer", " ">>)),
                "Content-Type", PyStr(<<"application", "/", "json">>)),
            "Cache-Control", PyStr(<<"no", "-", "cache">>))])

\* api.py _get_authenticated_headers: f'Bearer {self.token}', the JSON
\* content type and no-cache
_get_authenticated_headers(a) ==
    Ret("headers", [headers |->
        Put(Put(Put(EmptyPayload, "Authorization", PyStr(<<"Bearer", " ">> \o TokenStr(a.token))),
                "Content-Type", PyStr(<<"application", "/", "json">>)),
            "Cache-Control", PyStr(<<"no", "-", "cache">>))])

\* api.py _get_authenticated_headers_image: no Content-Type
_get_authenticated_headers_image(a) ==
    Ret("headers", [headers |->
        Put(Put(EmptyPayload, "Authorization", PyStr(<<"Bearer", " ">> \o TokenStr(a.token))),
            "Cache-Control", PyStr(<<"no", "-", "cache">>))])

\* geostore.py __get_authenticated_headers: "Bearer {}".format(self.token)
__get_authenticated_headers(a) ==
    Ret("headers", [headers |->
        Put(Put(Put(EmptyPayload, "Authorization", PyStr(<<"Bearer", " ">> \o TokenStr(a.token))),
                "Content-Type", PyStr(<<"application", "/", "json">>)),
            "Cache-Control", PyStr(<<"no", "-", "cache">>))])

\* geostore.py __get_authenticated_headers_image: no Content-Type
__get_authenticated_headers_image(a) ==
    Ret("headers", [headers |->
        Put(Put(EmptyPayload, "Authorization", PyStr(<<"Bearer", " ">> \o TokenStr(a.token))),
            "Cache-Control", PyStr(<<"no", "-", "cache">>))])

\* answers of the tasking endpoint of one contract
TaskingAnswers ==
    { [status |-> 200, json |-> "{'taskings': [...]}"],
      [status |-> 404, json |-> "{'message': 'Not Found'}"] }

RECURSIVE tasking_loop(_, _, _, _)
\* tasking.py get_taskings_from_contract_ids, the "for contract in" loop over
\* the ids still to visit: data[contract] = [], the GET with the Api's
\* token, then "response and response.ok()".  A Response is truthy when
\* its status is below 400, and ok is a property, a bool: calling it is a
\* TypeError.  After an answer of 400 or more "and" stops at the falsy
\* response and the loop goes on.
tasking_loop(a, ids, data, o) ==
    IF ids = <<>>
    THEN { Outcome(o.auth, Ret("dict", [data |-> data]), o.sent) }
    ELSE UNION { LET sent == Append(o.sent, Request("taskings", Head(ids), a.token, r.status,
                                                    [json |-> r.json])) IN
                 IF Ok(r)
                 THEN { Outcome(o.auth, Raise("TypeError", "'bool' object is not callable"), sent) }
                 ELSE tasking_loop(a, Tail(ids), Put(data, Head(ids), <<>>),
                                   Outcome(o.auth, o.ret, sent))
                 : r \in TaskingAnswers }

\* tasking.py get_taskings_from_contract_ids: the loop over whatever
\* get_cis_contract_ids returned; False is not iterable
get_taskings_from_contract_ids(a, s) ==
    UNION { IF o.ret.tag = "raise" THEN { o }
            ELSE IF o.ret.tag = "False"
                 THEN { Outcome(o.auth, Raise("TypeError", "'bool' object is not iterable"), o.sent) }
            ELSE tasking_loop(a, o.ret.val.ids, EmptyPayload, o)
            : o \in get_cis_contract_ids(s) }

\* the classes with get_payload and get_response_data
SearchKinds == {"Geostore", "OneAtlas", "HEADFinder"}

\* search_api.py __init__: the user key is kept, nothing is sent
SearchApi_init == [kind |-> "HEADFinder", token |-> NoToken, user_key |-> PyStr(<<"key">>)]

SearchAnswers ==
    { [status |-> 200, content |-> "features"],
      [status |-> 400, content |-> "bad request"],
      [status |-> 500, content |-> "server error"] }

\* get_response_data that sends the request again when it was not answered
\* with success
get_response_data_retry(a, fs, payload) ==
    { LET request == Request("search", "json.dumps(payload)", a.token, r.status,
                             [content |-> r.content]) IN
      ApiOutcome(IF Ok(r) THEN Ret("response", r) ELSE RetNone,
                 IF Ok(r) THEN <<request>> ELSE <<request, request>>, fs)
      : r \in SearchAnswers }

\* get_response_data: the payload is serialised (json.dumps for the Airbus
\* classes, urlencode for HEADFinder) and sent once.  Geostore returns the
\* response when it is ok and None otherwise, OneAtlas returns the response
\* whatever its status, HEADFinder returns it when it is ok and otherwise
\* raises the HTTPError of raise_for_status().
get_response_data(a, fs, payload) ==
    { CASE a.kind = "Geostore" ->
             ApiOutcome(IF Ok(r) THEN Ret("response", r) ELSE RetNone,
                        <<Request("search", "json.dumps(payload)", a.token, r.status,
                                  [content |-> r.content])>>, fs)
        [] a.kind = "OneAtlas" ->
             ApiOutcome(Ret("response", r),
                        <<Request("search", "json.dumps(payload)", a.token, r.status,
                                  [content |-> r.content])>>, fs)
        [] a.kind = "HEADFinder" ->
             ApiOutcome(IF Ok(r) THEN Ret("response", r)
                        ELSE Raise("HTTPError", "raise_for_status"),
                        <<Request("search", "urlencode(payload)", NoToken, r.status,
                                  [content |-> r.content])>>, fs)
      : r \in SearchAnswers }

----------------------------------------------------------------------------
(* State machine *)

NoApi == [kind |-> "none", token |-> NoToken]

NoFiles == [n \in 1..MaxNames |-> None]

\* the arguments of a call: the class constructed, and the arguments of the
\* image methods
Args(kind, feature, preview_url, img_size) ==
    [kind |-> kind, feature |-> feature, preview_url |-> preview_url, img_size |-> img_size]

NoArgs == Args(None, NoFeature, None, None)

\* the record of a call
Call(op, arg, pre, o) ==
    [op |-> op, arg |-> arg, pre |-> pre, ret |-> o.ret, sent |-> o.sent]

Init ==
    /\ service \in Services
    /\ auth = Authentication
    /\ api = NoApi
    /\ files = NoFiles
    /\ last = Call("Authentication", NoArgs, Authentication, Outcome(Authentication, RetNone, <<>>))

\* a method of the session returns one of its outcomes
SessionCall(op, outcomes) ==
    \E o \in outcomes :
        /\ auth' = o.auth
        /\ last' = Call(op, NoArgs, auth, o)
        /\ UNCHANGED <<service, api, files>>

\* Authentication(api_key): a new session, not owned by an Api
NewAuthentication ==
    /\ auth' = Authentication
    /\ api' = NoApi
    /\ last' = Call("Authentication", NoArgs, auth, Outcome(Authentication, RetNone, <<>>))
    /\ UNCHANGED <<service, files>>

GetToken == SessionCall("get_token", get_token(auth))

TestApiToken == SessionCall("test_api_token", test_api_token(auth))

GetRoles == SessionCall("get_roles", get_roles(auth))

GetMe == SessionCall("get_me", get_me(auth))

GetContractId == SessionCall("get_contract_id", get_contract_id(auth))

GetAllSubscriptions == SessionCall("get_all_subscriptions", get_all_subscriptions(auth))

GetUsage == SessionCall("get_usage", get_usage(auth))

GetCisContracts == SessionCall("get_cis_contracts", get_cis_contracts(auth))

\* Api(api_key) of one of the classes
NewApi ==
    \E kind \in ApiKinds : \E o \in Api_init(kind) :
        /\ auth' = o.auth
        /\ api' = o.api
        /\ last' = Call("Api", Args(kind, NoFeature, None, None), auth, o)
        /\ UNCHANGED <<service, files>>

ImageUrls == {None, "u1", "u2"}

ImgSizes == {"LARGE", "SMALL"}

Features ==
    { NoFeature,
      Feature("{}", <<>>, None),
      Feature("dict", <<Quicklook("SMALL", "u1"), Quicklook("LARGE", "u2"), Quicklook("LARGE", "u1")>>, "u1"),
      Feature("dict", <<Quicklook("SMALL", "u2")>>, "u2") }

\* a method of the Api that leaves the session alone returns one of its outcomes
ApiCall(op, arg, outcomes) ==
    \E o \in outcomes :
        /\ files' = o.files
        /\ last' = Call(op, arg, auth, o)
        /\ UNCHANGED <<service, auth, api>>

\* img_size is a parameter of the Geostore class only
SizesOf(kind) == IF kind = "Geostore" THEN ImgSizes ELSE {"LARGE"}

GetImageData ==
    /\ api.kind \in ImageKinds
    /\ \E u \in ImageUrls :
          ApiCall("get_image_data", Args(api.kind, NoFeature, u, "LARGE"),
                  get_image_data(api, files, u))

GetImagePath ==
    /\ api.kind \in ImageKinds
    /\ \E f \in Features, u \in ImageUrls, z \in SizesOf(api.kind) :
          ApiCall("get_image_path", Args(api.kind, f, u, z),
                  get_image_path(api, files, f, u, z))

GetCisContractIds ==
    /\ api.kind = "Tasking"
    /\ SessionCall("get_cis_contract_ids", get_cis_contract_ids(auth))

\* OneAtlas get_data_usage, on the session the Api owns
GetDataUsage ==
    /\ api.kind = "OneAtlas"
    /\ SessionCall("get_data_usage", get_data_usage(auth))

GetTaskingsFromContractIds ==
    /\ api.kind = "Tasking"
    /\ SessionCall("get_taskings_from_contract_ids", get_taskings_from_contract_ids(api, auth))

\* the caller, who owns the files, deletes one
Remove ==
    \E n \in 1..MaxNames :
        /\ files[n] /= None
        /\ files' = [files EXCEPT ![n] = None]
        /\ last' = Call("remove", [name |-> n], auth, Outcome(auth, RetNone, <<>>))
        /\ UNCHANGED <<service, auth, api>>

\* the session, the construction of an Api on it and the Tasking Api's use
\* of the session: no files are involved
Next ==
    \/ NewAuthentication
    \/ GetToken
    \/ TestApiToken
    \/ GetRoles
    \/ GetMe
    \/ GetContractId
    \/ GetAllSubscriptions
    \/ GetUsage
    \/ GetCisContracts
    \/ NewApi
    \/ GetCisContractIds
    \/ GetDataUsage
    \/ GetTaskingsFromContractIds

Spec == Init /\ [][Next]_vars

\* the image methods of a constructed Api and the temporary files they write
ImageNext ==
    \/ NewApi
    \/ GetImageData
    \/ GetImagePath
    \/ Remove

ImageSpec == Init /\ [][ImageNext]_vars

\* a keyword argument of a call
Choice(opt, val) == [opt |-> opt, val |-> val]

RECURSIVE Given(_, _)
\* the keyword arguments of the calls that give at most n of the choices
Given(choices, n) ==
    IF n = 0 THEN { EmptyPayload }
    ELSE LET fewer == Given(choices, n - 1) IN
         fewer \cup { Put(g, c.opt, c.val) : g \in fewer, c \in choices }

Date1 == PyStr(<<"2", "0", "1", "8", "-", "0", "1", "-", "0", "1">>)

Date2 == PyStr(<<"2", "0", "1", "8", "-", "0", "2", "-", "0", "1">>)

GeostoreChoices ==
    { Choice("bbox", PyList(<<PyInt(1), PyInt(2), PyInt(3), PyInt(4)>>)),
      Choice("constellation", PyList(<<PyStr(<<"PHR">>)>>)),
      Choice("acquisition_date_range", PyList(<<Date1, Date2>>)),
      Choice("acquisition_date_range", PyList(<<Date1>>)),
      Choice("polarisation_channels", PyList(<<PyStr(<<"HH">>)>>)),
      Choice("product_type", PyList(<<PyStr(<<"bundle">>)>>)),
      Choice("resolution", PyFloat(1)),
      Choice("geometry", PyStr(<<"POLYGON">>)), Choice("geometry", PyStr(<<>>)),
      Choice("cloud_cover", PyInt(30)), Choice("cloud_cover", PyInt(0)),
      Choice("snow_cover", PyInt(10)),
      Choice("incidence_angle", PyInt(45)),
      Choice("sensor_type", PyStr(<<"optical">>)),
      Choice("antenna_look_direction", PyStr(<<"R">>)),
      Choice("orbit_direction", PyStr(<<"ascending">>)),
      Choice("count", PyInt(5)), Choice("count", PyInt(0)), Choice("count", PyNone),
      Choice("start_page", PyInt(3)), Choice("start_page", PyInt(0)),
      Choice("start_page", PyNone),
      Choice("sort_key", PyStr(<<"cloud_rate">>)), Choice("sort_key", PyNone) }

OneAtlasChoices ==
    { Choice("bbox", PyList(<<PyInt(1), PyInt(2), PyInt(3), PyInt(4)>>)),
      Choice("geometry", PyStr(<<"POLYGON">>)),
      Choice("acquisition_date_range", PyList(<<Date1, Date2>>)),
      Choice("publication_date_range", PyList(<<Date1, Date2>>)),
      Choice("cloud_cover", PyInt(30)), Choice("cloud_cover", PyInt(0)),
      Choice("cloud_cover", PyNone),
      Choice("snow_cover", PyInt(10)), Choice("snow_cover", PyNone),
      Choice("commercial_reference", PyStr(<<"SO">>)),
      Choice("constellation", PyList(<<PyStr(<<"PHR">>)>>)),
      Choice("constellation", PyList(<<>>)),
      Choice("incidence_angle", PyInt(45)),
      Choice("parent_idenfifier", PyStr(<<"DS">>)),
      Choice("platform", PyList(<<PyStr(<<"PHR">>), PyStr(<<"A">>)>>)),
      Choice("product_type", PyList(<<PyStr(<<"bundle">>)>>)),
      Choice("production_status", PyList(<<PyStr(<<"ARCHIVED">>)>>)),
      Choice("resolution", PyFloat(1)),
      Choice("source_identifier", PyStr(<<"DS">>)),
      Choice("workspace", PyStr(<<"TEST">>)),
      Choice("processing_level", PyList(<<PyStr(<<"SENSOR">>)>>)),
      Choice("processing_level", PyList(<<>>)),
      Choice("count", PyInt(5)), Choice("count", PyInt(0)), Choice("count", PyNone),
      Choice("start_page", PyInt(3)), Choice("start_page", PyInt(0)),
      Choice("sort_key", PyStr(<<"cloudCover">>)), Choice("sort_key", PyNone),
      Choice("sort_key", PyStr(<<>>)) }

HEADFinderChoices ==
    { Choice("bbox", PyList(<<PyInt(1), PyInt(2), PyInt(3), PyInt(4)>>)),
      Choice("geometry", PyStr(<<"POLYGON">>)),
      Choice("satellites", PyList(<<PyStr(<<"SuperView">>), PyStr(<<"EarthScanner">>)>>)),
      Choice("satellites", PyList(<<>>)),
      Choice("scene_id", PyStr(<<"TEST">>)), Choice("scene_id", PyStr(<<>>)),
      Choice("scene_id_exact_match", PyBool(FALSE)),
      Choice("scene_id_exact_match", PyNone),
      Choice("max_scenes", PyInt(2)), Choice("max_scenes", PyInt(50)),
      Choice("max_scenes", PyInt(51)),
      Choice("max_scenes", PyInt(0)), Choice("max_scenes", PyNone),
      Choice("start_date", Date1), Choice("end_date", Date2),
      Choice("cloud_cover", PyInt(30)), Choice("cloud_cover", PyInt(0)),
      Choice("incidence_angle", PyInt(45)), Choice("incidence_angle", PyNone) }

\* the keyword arguments get_payload of a class is called with
Kwargs(kind) ==
    CASE kind = "Geostore" -> Given(GeostoreChoices, MaxGiven)
      [] kind = "OneAtlas" -> Given(OneAtlasChoices, MaxGiven)
      [] kind = "HEADFinder" -> Given(HEADFinderChoices, MaxGiven)

\* get_payload that also writes the Api's token into the payload
get_payload_with_token(a, kwargs) ==
    LET built == CASE a.kind = "Geostore" -> Geostore_get_payload(kwargs)
                   [] a.kind = "OneAtlas" -> OneAtlas_get_payload(kwargs)
                   [] a.kind = "HEADFinder" -> HEADFinder_get_payload(a.user_key, kwargs)
    IN IF built.tag /= "payload" THEN built
       ELSE Ret("payload", [payload |-> Put(built.val.payload, "token", PyStr(TokenStr(a.token)))])

\* get_payload of the class of the Api
get_payload(a, kwargs) ==
    CASE a.kind = "Geostore" -> Geostore_get_payload(kwargs)
      [] a.kind = "OneAtlas" -> OneAtlas_get_payload(kwargs)
      [] a.kind = "HEADFinder" -> HEADFinder_get_payload(a.user_key, kwargs)

\* the values the encoders are given: dates, numbers, None, ''
Scalars == { Date1, Date2, PyInt(0), PyInt(10), PyInt(123), PyFloat(100), PyNone, PyStr(<<>>) }

ValueLists ==
    { <<a, b>> : a \in Scalars, b \in Scalars }
    \cup { <<a>> : a \in Scalars }
    \cup { <<Date1, Date2, a>> : a \in Scalars }

SortKeys ==
    { PyNone, PyStr(<<>>), PyStr(<<"date">>), PyStr(<<"-", "date">>),
      PyStr(<<"cloud_rate">>), PyStr(<<"-", "cloud_rate">>), PyStr(<<"-">>),
      PyStr(<<"acquisitionDate">>), PyStr(<<"-", "cloudCover">>),
      PyStr(<<"-", "-", "date">>), PyStr(<<"date", "-">>) }

\* a call that has not returned yet
Pending == Ret("pending", NoVal)

\* the calls of the encoders and builders of an Api: the method and its arguments
PureCalls(kind) ==
    (IF kind \in SearchKinds
     THEN { [op |-> "get_payload", arg |-> [kwargs |-> k]] : k \in Kwargs(kind) }
     ELSE {})
    \cup
    (IF kind = "Geostore"
     THEN { [op |-> "__get_dates", arg |-> [value_list |-> l]] : l \in ValueLists }
          \cup { [op |-> "__get_less_than_or_equals", arg |-> [value |-> v]] : v \in Scalars }
          \cup { [op |-> "__get_sort_keys", arg |-> [sort_key |-> s]] : s \in SortKeys }
     ELSE {})
    \cup
    (IF kind \in {"AbstractApi", "OneAtlas"}
     THEN { [op |-> "_get_included_values", arg |-> [value_list |-> l]] : l \in ValueLists }
          \cup { [op |-> "_get_less_than_or_equals", arg |-> [value |-> v]] : v \in Scalars }
     ELSE {})
    \cup
    (IF kind = "Geostore"
     THEN { [op |-> "__get_authenticated_headers", arg |-> NoVal],
            [op |-> "__get_authenticated_headers_image", arg |-> NoVal] }
     ELSE {})
    \cup
    (IF kind \in {"AbstractApi", "OneAtlas"}
     THEN { [op |-> "_get_authenticated_headers", arg |-> NoVal],
            [op |-> "_get_authenticated_headers_image", arg |-> NoVal] }
     ELSE {})

\* the Apis that were constructed: an Airbus Api whose __init__ did not
\* raise, or the HEADFinder Api
Constructed(kind, o) ==
    IF kind = "HEADFinder"
    THEN /\ auth = Authentication
         /\ api = SearchApi_init
         /\ o = Outcome(Authentication, RetNone, <<>>)
    ELSE /\ o \in { i \in Api_init(kind) : i.ret.tag /= "raise" }
         /\ auth = o.auth
         /\ api = o.api

\* a constructed Api and one call of an encoder or builder, about to be made
PayloadInit ==
    /\ service \in Services
    /\ files = NoFiles
    /\ \E kind \in {"AbstractApi", "Geostore", "OneAtlas", "HEADFinder"} :
         \E o \in Api_init(kind) \cup { Outcome(Authentication, RetNone, <<>>) } :
            /\ Constructed(kind, o)
            /\ \E c \in PureCalls(kind) :
                  last = [op |-> c.op, arg |-> c.arg, pre |-> auth, ret |-> Pending, sent |-> <<>>]

\* the pending call returns
Return(op, ret) ==
    /\ last.op = op
    /\ last.ret = Pending
    /\ last' = [last EXCEPT !.ret = ret]
    /\ UNCHANGED <<service, auth, api, files>>

GetIncludedValues == Return("_get_included_values", _get_included_values(last.arg.value_list))

GetDates == Return("__get_dates", __get_dates(last.arg.value_list))

GetLessThanOrEquals == Return("_get_less_than_or_equals", _get_less_than_or_equals(last.arg.value))

GeostoreGetLessThanOrEquals ==
    Return("__get_less_than_or_equals", __get_less_than_or_equals(last.arg.value))

GetSortKeys == Return("__get_sort_keys", __get_sort_keys(last.arg.sort_key))

GetPayload == Return("get_payload", get_payload(api, last.arg.kwargs))

GetAuthenticatedHeaders == Return("_get_authenticated_headers", _get_authenticated_headers(api))

GetAuthenticatedHeadersImage ==
    Return("_get_authenticated_headers_image", _get_authenticated_headers_image(api))

GeostoreGetAuthenticatedHeaders ==
    Return("__get_authenticated_headers", __get_authenticated_headers(api))

GeostoreGetAuthenticatedHeadersImage ==
    Return("__get_authenticated_headers_image", __get_authenticated_headers_image(api))

\* the encoders and the payload and header builders, which read nothing but
\* their arguments and the Api's token
PayloadNext ==
    \/ GetIncludedValues
    \/ GetDates
    \/ GetLessThanOrEquals
    \/ GeostoreGetLessThanOrEquals
    \/ GetSortKeys
    \/ GetPayload
    \/ GetAuthenticatedHeaders
    \/ GetAuthenticatedHeadersImage
    \/ GeostoreGetAuthenticatedHeaders
    \/ GeostoreGetAuthenticatedHeadersImage

PayloadSpec == PayloadInit /\ [][PayloadNext]_vars

\* HEADFinder Api(user_key)
NewSearchApi ==
    /\ auth' = Authentication
    /\ api' = SearchApi_init
    /\ last' = Call("Api", Args("HEADFinder", NoFeature, None, None), auth,
                    Outcome(Authentication, RetNone, <<>>))
    /\ UNCHANGED <<service, files>>

\* the payloads handed to get_response_data: those get_payload builds from
\* at most one keyword argument
SearchPayloads(a) ==
    { r.val.payload : r \in { p \in { get_payload(a, k) : k \in Given(
          CASE a.kind = "Geostore" -> GeostoreChoices
            [] a.kind = "OneAtlas" -> OneAtlasChoices
            [] OTHER -> HEADFinderChoices, 1) } : p.tag = "payload" } }

GetResponseData ==
    /\ api.kind \in SearchKinds
    /\ \E payload \in SearchPayloads(api) :
          ApiCall("get_response_data", [kind |-> api.kind, payload |-> payload],
                  get_response_data(api, files, payload))

\* the parameters of get_payload of a class
ChoicesOf(kind) ==
    CASE kind = "Geostore" -> GeostoreChoices
      [] kind = "OneAtlas" -> OneAtlasChoices
      [] kind = "HEADFinder" -> HEADFinderChoices

\* api.get_payload(...) with at most one keyword argument
CallGetPayload ==
    /\ api.kind \in SearchKinds
    /\ \E kwargs \in Given(ChoicesOf(api.kind), 1) :
          ApiCall("get_payload", [kwargs |-> kwargs],
                  { ApiOutcome(get_payload(api, kwargs), <<>>, files) })

\* api.auth.get_token(): the session of an Airbus Api is refreshed
RefreshToken ==
    /\ api.kind \in ApiKinds
    /\ GetToken

\* the search request of a constructed Api, its payload, its image request
\* and the refresh of its session
SearchNext ==
    \/ NewApi
    \/ NewSearchApi
    \/ RefreshToken
    \/ CallGetPayload
    \/ GetResponseData
    \/ GetImageData

SearchSpec == Init /\ [][SearchNext]_vars



----------------------------------------------------------------------------
(* Properties of the session (checked under Spec) *)

\* the last call returned: it raised nothing
Returned == last.ret.tag /= "raise"

\* the four getters that authenticate lazily and then send one GET
LazyGetters == {"get_roles", "get_me", "get_all_subscriptions", "get_cis_contracts"}

\* the last call's own credential exchange, the first request it sent,
\* was answered 403
LazyAuthFailed ==
    /\ last.sent /= <<>>
    /\ last.sent[1].endpoint = "token"
    /\ last.sent[1].status = 403

\* the positions in the log of the requests to an endpoint
Positions(sent, endpoint) == { i \in 1..Len(sent) : sent[i].endpoint = endpoint }

\* C1: whenever a get_token() call has returned, exactly one of token and
\* errors is set (is not None): never both, never neither.
C1_ExactlyOneSet ==
    (last.op = "get_token" /\ Returned) =>
        (HasToken(auth.token) /= (auth.errors /= None))

\* C2: after get_token() returns, token and errors reflect only the latest
\* answer: a success leaves errors unset, a 403 leaves token unset.
C2_LatestAnswerOnly ==
    (last.op = "get_token" /\ Returned) =>
        /\ (last.sent[1].status /= 403 /\ HasToken(last.sent[1].got.access_token))
              => auth.errors = None
        /\ last.sent[1].status = 403 => ~HasToken(auth.token)

\* C3: with an invalid key (every credential exchange answered 403 with its
\* error body) errors is unset after construction, get_token() returns False
\* and leaves the decoded, non-empty error body in errors, and token is unset
\* in every state.
C3_InvalidKey ==
    service = "rejects" =>
        /\ ~HasToken(auth.token)
        /\ last.op = "Authentication" => auth.errors = None
        /\ last.op = "get_token" =>
              /\ last.ret = RetFalse
              /\ Len(last.sent) = 1
              /\ last.sent[1].status = 403
              /\ auth.errors = last.sent[1].got.json
              /\ Truthy(auth.errors)

\* C3 witness: a second get_token() with the invalid key has returned False
C3_Witness ==
    /\ service = "rejects"
    /\ last.op = "get_token"
    /\ last.pre.errors = ErrorBody
    /\ last.ret = RetFalse
    /\ auth.errors = ErrorBody

\* C4: with a valid key (every credential exchange answered with an
\* access_token) get_token() returns True, token is that access_token, and
\* errors is unset in every state.
C4_ValidKey ==
    service = "accepts" =>
        /\ auth.errors = None
        /\ last.op = "get_token" =>
              /\ last.ret = RetTrue
              /\ Len(last.sent) = 1
              /\ HasToken(auth.token)
              /\ auth.token = last.sent[1].got.access_token

\* C4 witness: a later get_token() with the valid key replaced the token
C4_Witness ==
    /\ service = "accepts"
    /\ last.op = "get_token"
    /\ HasToken(last.pre.token)
    /\ last.pre.token /= auth.token
    /\ last.ret = RetTrue

\* C5: a credential exchange answered with a non-403 status and no
\* access_token leaves the session observably unauthenticated: get_token()
\* raises nothing, leaves token unset and does not report success, and no
\* call sends a data request whose bearer token is absent.
C5_ObservablyUnauthenticated ==
    /\ (/\ last.op = "get_token"
        /\ last.sent[1].status /= 403
        /\ ~HasToken(last.sent[1].got.access_token))
          => (Returned /\ ~HasToken(auth.token) /\ last.ret /= RetTrue)
    /\ \A i \in 1..Len(last.sent) :
          last.sent[i].endpoint \notin {"token", "test_token"}
              => HasToken(last.sent[i].bearer)

\* C6: a lazy getter called without a token sends the credential exchange
\* first, before any data request; called with a token it sends no
\* credential exchange; and with a valid key the session holds a token and
\* no errors after the call.
C6_LazyAuthentication ==
    last.op \in LazyGetters =>
        /\ ~HasToken(last.pre.token) =>
              /\ last.sent /= <<>>
              /\ last.sent[1].endpoint = "token"
              /\ \A i \in 1..Len(last.sent) :
                    last.sent[i].endpoint /= "token" =>
                        \A j \in Positions(last.sent, "token") : j < i
        /\ HasToken(last.pre.token) => Positions(last.sent, "token") = {}
        /\ service = "accepts" => (HasToken(auth.token) /\ auth.errors = None)

\* C6 witness: get_all_subscriptions, called on a session without a token
\* and with a valid key, authenticated and returned the subscriptions
C6_Witness ==
    /\ service = "accepts"
    /\ last.op = "get_all_subscriptions"
    /\ ~HasToken(last.pre.token)
    /\ last.ret.tag = "json"
    /\ Len(last.sent) = 3
    /\ HasToken(auth.token)

\* C7: when the credential exchange a lazy getter triggers is answered 403,
\* the getter returns False, raises nothing and sends no data request.
C7_FailedLazyAuthentication ==
    (last.op \in LazyGetters /\ ~HasToken(last.pre.token) /\ LazyAuthFailed) =>
        /\ last.ret = RetFalse
        /\ Len(last.sent) = 1

\* C7 witness: get_cis_contracts met a 403 at its credential exchange
C7_Witness ==
    /\ last.op = "get_cis_contracts"
    /\ ~HasToken(last.pre.token)
    /\ LazyAuthFailed
    /\ last.ret = RetFalse

\* the calls of the session that C8 says never raise on a 403
QuietCalls ==
    {"get_token", "get_roles", "get_me", "get_contract_id",
     "get_all_subscriptions", "get_cis_contracts"}

----------------------------------------------------------------------------
(* Properties of the image methods (checked under ImageSpec) *)

\* the step is a call of get_image_path with both a feature and a preview_url
BothGiven(call) ==
    /\ call.op = "get_image_path"
    /\ FeatureTruthy(call.arg.feature)
    /\ Truthy(call.arg.preview_url)

\* the step is a call of get_image_path with exactly one of the two
OneGiven(call) ==
    /\ call.op = "get_image_path"
    /\ FeatureTruthy(call.arg.feature) /= Truthy(call.arg.preview_url)

\* what a step that calls get_image_path with both arguments does
C9_BothArgumentsStep ==
    BothGiven(last') =>
        /\ last'.ret = Raise("ValueError", "Both feature and preview_url is not allowed")
        /\ last'.sent = <<>>
        /\ files' = files
        /\ auth' = auth
        /\ api' = api

\* C9: get_image_path (Geostore and OneAtlas) given both a feature and a
\* preview_url raises ValueError at once: the step sends no request, leaves
\* every file as it was and leaves the session and the Api's token unchanged.
C9_BothArguments == [][C9_BothArgumentsStep]_vars

\* C9 witness: the ValueError was raised while a file of an earlier call exists
C9_Witness ==
    /\ BothGiven(last)
    /\ last.ret.tag = "raise"
    /\ \E n \in 1..MaxNames : files[n] = "imgA"

\* what a step that calls get_image_data, or get_image_path with one
\* argument, does once the image GET is answered
C10_ImageStep ==
    /\ (last'.op = "get_image_data" /\ last'.sent /= <<>>) =>
          /\ files' = files
          /\ IF last'.sent[1].status < 400
             THEN last'.ret = Ret("response", [status |-> last'.sent[1].status,
                                               content |-> last'.sent[1].got.content])
             ELSE last'.ret = RetNone
    /\ (OneGiven(last') /\ last'.sent /= <<>>) =>
          IF last'.sent[1].status < 400
          THEN IF last'.ret.tag = "raise"
               THEN last'.ret \in { writing_error(fault) : fault \in WriteFaults \ {"none"} }
               ELSE /\ last'.ret.tag = "path"
                    /\ last'.ret.val.ext = ".jpg"
                    /\ files'[last'.ret.val.name] = last'.sent[1].got.content
                    /\ \A n \in 1..MaxNames : n /= last'.ret.val.name => files'[n] = files[n]
          ELSE last'.ret = RetNone /\ files' = files

\* C10: get_image_data returns the response exactly when the image GET is
\* answered with success, otherwise None.  get_image_path, given one of
\* feature and preview_url, returns None and touches no file when the GET
\* is not answered with success; when it is, it returns the path of a
\* '.jpg' file that holds the content of the answer (or, the write having
\* failed, raises the ValueError of the failed write).
C10_Image == [][C10_ImageStep]_vars

\* C10 witness: get_image_path, given a feature only, saved the image
C10_Witness ==
    /\ OneGiven(last)
    /\ FeatureTruthy(last.arg.feature)
    /\ last.ret.tag = "path"
    /\ files[last.ret.val.name] = "imgB"
    /\ last.sent[1].status = 200

\* what a step in which get_image_path returns a path does to the name
C11_FreshPathStep ==
    (last'.op = "get_image_path" /\ last'.ret.tag = "path") =>
        files[last'.ret.val.name] = None

\* C11: every successful get_image_path writes to a newly generated,
\* uniquely named temporary file: the path it returns did not exist before
\* the call, so no file of an earlier call that the caller has not deleted
\* is overwritten.
C11_FreshPath == [][C11_FreshPathStep]_vars

\* the step is a call of the Geostore get_image_path with a feature only
FeatureOnly(call) ==
    /\ call.op = "get_image_path"
    /\ call.arg.kind = "Geostore"
    /\ FeatureTruthy(call.arg.feature)
    /\ ~Truthy(call.arg.preview_url)

\* the positions of the quicklooks of a call's feature that have its img_size
Matching(call) ==
    { i \in 1..Len(call.arg.feature.quicklooks) :
        call.arg.feature.quicklooks[i].size = call.arg.img_size }

\* what a step that calls the Geostore get_image_path with a feature only does
C12_FirstQuicklookStep ==
    FeatureOnly(last') =>
        IF Matching(last') = {}
        THEN /\ last'.ret = Raise("StopIteration", "")
             /\ last'.sent = <<>>
             /\ files' = files
        ELSE /\ Len(last'.sent) = 1
             /\ last'.sent[1].endpoint = "image"
             /\ \E i \in Matching(last') :
                   /\ \A j \in Matching(last') : i <= j
                   /\ last'.sent[1].arg = last'.arg.feature.quicklooks[i].image

\* C12: the Geostore get_image_path given only a feature requests the image
\* link of the first quicklook, in list order, whose size equals img_size;
\* when no quicklook has that size it fails with StopIteration, unhandled,
\* before any request is sent and without creating or changing a file.
C12_FirstQuicklook == [][C12_FirstQuicklookStep]_vars

\* C12 witness: of two quicklooks of the size asked for, the image of the
\* first was requested
C12_Witness ==
    /\ FeatureOnly(last)
    /\ Cardinality(Matching(last)) = 2
    /\ last.sent /= <<>>
    /\ last.sent[1].arg = "u2"
    /\ last.arg.feature.quicklooks[3].image = "u1"

----------------------------------------------------------------------------
(* Properties of the search request (checked under SearchSpec) *)

\* C13: for every provider (Geostore, OneAtlas, HEADFinder)
\* get_response_data returns a response object only if the HTTP status of
\* the answer indicates success; on any other status the caller gets None
\* or an exception, never a response as the returned value.
C13_ResponseOnlyOnSuccess ==
    (last.op = "get_response_data" /\ last.ret.tag = "response") =>
        last.sent[1].status < 400

----------------------------------------------------------------------------
(* Properties of the encoders and payload builders (checked under PayloadSpec) *)

\* the last call is a get_payload that returned a payload
Built == last.op = "get_payload" /\ last.ret.tag = "payload"

\* the entry of the payload each parameter of get_payload is written to
EntryOf(kind) ==
    CASE kind = "Geostore" ->
           [geometry |-> "geometry", bbox |-> "bbox", constellation |-> "constellation",
            acquisition_date_range |-> "acquisitionDate",
            polarisation_channels |-> "polarisationChannels",
            product_type |-> "productType", resolution |-> "resolution",
            cloud_cover |-> "cloudCover", snow_cover |-> "snowCover",
            incidence_angle |-> "incidenceAngle", sensor_type |-> "sensorType",
            antenna_look_direction |-> "antennaLookDirection",
            orbit_direction |-> "orbitDirection", count |-> "count",
            start_page |-> "startPage", sort_key |-> "sortKeys"]
      [] kind = "OneAtlas" ->
           [bbox |-> "bbox", geometry |-> "geometry",
            acquisition_date_range |-> "acquisitionDate",
            publication_date_range |-> "publicationDate",
            cloud_cover |-> "cloudCover", snow_cover |-> "snowCover",
            commercial_reference |-> "commercialReference",
            constellation |-> "constellation", incidence_angle |-> "incidenceAngle",
            parent_idenfifier |-> "parentIdenfifier", platform |-> "platform",
            product_type |-> "productType", production_status |-> "productionStatus",
            resolution |-> "resolution", source_identifier |-> "sourceIdentifier",
            workspace |-> "workspace", processing_level |-> "processingLevel",
            count |-> "itemsPerPage", start_page |-> "startPage", sort_key |-> "sortBy"]
      [] kind = "HEADFinder" ->
           [bbox |-> "aoi", geometry |-> "aoi", satellites |-> "satellites",
            scene_id |-> "scenename", scene_id_exact_match |-> "scenenamematch",
            max_scenes |-> "maxscenes", start_date |-> "datestart",
            end_date |-> "dateend", cloud_cover |-> "cloudmax",
            incidence_angle |-> "offnadirmax"]

DefaultsOf(kind) ==
    CASE kind = "Geostore" -> GeostoreDefaults
      [] kind = "OneAtlas" -> OneAtlasDefaults
      [] kind = "HEADFinder" -> HEADFinderDefaults

\* the value the last get_payload had for a parameter
Param(opt) == Arg(last.arg.kwargs, DefaultsOf(api.kind), opt)

\* C14: in every payload built by the Geostore, OneAtlas and HEADFinder
\* get_payload, a parameter whose value is empty or falsy (None, empty list,
\* empty string, 0) contributes no entry (its entry is absent, or holds
\* something other than that value), and no entry has a None or empty value.
C14_NoEmptyEntry ==
    Built =>
        /\ \A opt \in DOMAIN EntryOf(api.kind) :
              ~PyTruthy(Param(opt)) =>
                 \/ EntryOf(api.kind)[opt] \notin DOMAIN last.ret.val.payload
                 \/ last.ret.val.payload[EntryOf(api.kind)[opt]] /= Param(opt)
        /\ \A k \in DOMAIN last.ret.val.payload :
              last.ret.val.payload[k] \notin { PyNone, PyStr(<<>>), PyList(<<>>) }

\* C15: every payload built by the Geostore and OneAtlas get_payload has the
\* item-count, start-page and sort-key entries, whatever filters are given;
\* when count and start_page are not given they are 20 and 1.
C15_Pagination ==
    (Built /\ api.kind \in {"Geostore", "OneAtlas"}) =>
        LET payload == last.ret.val.payload
            entry == EntryOf(api.kind) IN
        /\ {entry.count, entry.start_page, entry.sort_key} \subseteq DOMAIN payload
        /\ "count" \notin DOMAIN last.arg.kwargs => payload[entry.count] = PyInt(20)
        /\ "start_page" \notin DOMAIN last.arg.kwargs => payload[entry.start_page] = PyInt(1)

\* C15 witness: a payload built from two filters and no paging arguments
C15_Witness ==
    /\ Built
    /\ api.kind = "Geostore"
    /\ DOMAIN last.arg.kwargs = {"bbox", "cloud_cover"}
    /\ last.ret.val.payload["count"] = PyInt(20)
    /\ last.ret.val.payload["startPage"] = PyInt(1)
    /\ "bbox" \in DOMAIN last.ret.val.payload

\* C16: the Geostore get_payload called with default arguments yields a
\* payload whose sortKeys entry is the string 'sortKeys=acquisitionDate,,0'.
C16_DefaultSortKeys ==
    (Built /\ api.kind = "Geostore" /\ DOMAIN last.arg.kwargs = {}) =>
        last.ret.val.payload["sortKeys"]
            = PyStr(<<"sortKeys", "=", "acquisitionDate", ",", ",", "0">>)

\* '<field>,,<order>' of a sort key as the mapping is stated: order 0 and
\* the "-" dropped when the key starts with "-", otherwise order 1; field
\* cloudCover for cloud_rate and acquisitionDate for date and for all else
Mapped(sort_key) ==
    LET s == IF Is(sort_key, "str") THEN sort_key.str ELSE <<>>
        desc == s /= <<>> /\ s[1] = "-"
        rest == IF desc THEN SubSeq(s, 2, Len(s)) ELSE s
        field == CASE rest = <<"date">> -> "acquisitionDate"
                   [] rest = <<"cloud_rate">> -> "cloudCover"
                   [] OTHER -> "acquisitionDate"
    IN PyStr(<<field, ",", ",", IF desc THEN "0" ELSE "1">>)

C18_OneAtlasDefaults ==
    (Built /\ api.kind = "OneAtlas") =>
        /\ "cloud_cover" \notin DOMAIN last.arg.kwargs =>
              /\ "cloudCover" \in DOMAIN last.ret.val.payload
              /\ last.ret.val.payload["cloudCover"] = PyStr(<<"1", "0", "0", "[">>)
        /\ "sort_key" \notin DOMAIN last.arg.kwargs =>
              last.ret.val.payload["sortBy"]
                  = PyStr(<<"-", "acquisitionDate", ",", "cloudCover">>)

\* the last call is a call of a range encoder with a pair, and has returned
RangeEncoded ==
    /\ last.op \in {"_get_included_values", "__get_dates"}
    /\ last.ret /= Pending
    /\ Len(last.arg.value_list) = 2

\* C19: for every pair (a, b) the range encoder returns the string '[a,b['
\* (a and b in their natural string form, that of str()), and the Geostore
\* encoder __get_dates and the shared encoder
\* AbstractApi._get_included_values return the same string for the pair.
C19_IncludedValues ==
    RangeEncoded =>
        /\ last.ret = Ret("str", PyStr(<<"[">> \o format(last.arg.value_list[1]) \o <<",">>
                                       \o format(last.arg.value_list[2]) \o <<"[">>))
        /\ last.ret = __get_dates(last.arg.value_list)
        /\ last.ret = _get_included_values(last.arg.value_list)

\* C19 witness: the pair of dates of the tests, encoded by __get_dates
C19_Witness ==
    /\ RangeEncoded
    /\ last.op = "__get_dates"
    /\ last.arg.value_list = <<Date1, Date2>>
    /\ last.ret.val.str = <<"[", "2", "0", "1", "8", "-", "0", "1", "-", "0", "1", ",",
                            "2", "0", "1", "8", "-", "0", "2", "-", "0", "1", "[">>

\* the last call is a call of an upper-bound encoder, and has returned
BoundEncoded ==
    /\ last.op \in {"_get_less_than_or_equals", "__get_less_than_or_equals"}
    /\ last.ret /= Pending

\* C20: for every threshold v the upper-bound encoder returns the string
\* 'v[' (v in its natural string form, that of str()), in both
\* AbstractApi._get_less_than_or_equals and the Geostore
\* __get_less_than_or_equals.
C20_LessThanOrEquals ==
    BoundEncoded =>
        /\ last.ret = Ret("str", PyStr(format(last.arg.value) \o <<"[">>))
        /\ last.ret = _get_less_than_or_equals(last.arg.value)
        /\ last.ret = __get_less_than_or_equals(last.arg.value)

\* C20 witness: the threshold 10 of the tests, encoded as '10['
C20_Witness ==
    /\ BoundEncoded
    /\ last.op = "_get_less_than_or_equals"
    /\ last.arg.value = PyInt(10)
    /\ last.ret.val.str = <<"1", "0", "[">>

\* the last call is a call of a header builder, and has returned
HeadersBuilt ==
    /\ last.op \in {"_get_authenticated_headers", "_get_authenticated_headers_image",
                    "__get_authenticated_headers", "__get_authenticated_headers_image"}
    /\ last.ret /= Pending

\* C21: for every constructed Api both header builders return an
\* Authorization entry 'Bearer <token>' with the Api's token; the JSON
\* header builder adds Content-Type 'application/json' and the image header
\* builder has no Content-Type entry.
C21_Headers ==
    HeadersBuilt =>
        LET headers == last.ret.val.headers IN
        /\ "Authorization" \in DOMAIN headers
        /\ headers["Authorization"] = PyStr(<<"Bearer", " ">> \o TokenStr(api.token))
        /\ IF last.op \in {"_get_authenticated_headers", "__get_authenticated_headers"}
           THEN /\ "Content-Type" \in DOMAIN headers
                /\ headers["Content-Type"] = PyStr(<<"application", "/", "json">>)
           ELSE "Content-Type" \notin DOMAIN headers

\* C21 witness: the image headers of a Geostore Api that holds a token
C21_Witness ==
    /\ HeadersBuilt
    /\ last.op = "__get_authenticated_headers_image"
    /\ HasToken(api.token)
    /\ last.ret.val.headers["Authorization"] = PyStr(<<"Bearer", " ", "tok", "1">>)
    /\ DOMAIN last.ret.val.headers = {"Authorization", "Cache-Control"}

----------------------------------------------------------------------------
(* Properties of the payload builders among other calls (checked under SearchSpec) *)

\* what a step that calls get_payload does
C22_PureStep ==
    last'.op = "get_payload" =>
        /\ last'.sent = <<>>
        /\ auth' = auth /\ api' = api /\ files' = files
        /\ last'.ret = get_payload([api EXCEPT !.token = NoToken], last'.arg.kwargs)
        /\ (last.op = "get_payload" /\ last.arg = last'.arg) => last'.ret = last.ret

C23_NoRetry ==
    /\ last.op = "get_token" =>
          Len(last.sent) = 1 /\ last.sent[1].endpoint = "token"
    /\ last.op = "get_response_data" =>
          Len(last.sent) = 1 /\ last.sent[1].endpoint = "search"
    /\ last.op = "get_image_data" =>
          IF last.arg.preview_url = None THEN last.sent = <<>>
          ELSE /\ Len(last.sent) = 1
               /\ last.sent[1].endpoint = "image"
               /\ last.sent[1].arg = last.arg.preview_url

\* C23 witness: a search request answered 500 was sent once
C23_Witness ==
    /\ last.op = "get_response_data"
    /\ last.sent[1].status = 500
    /\ Len(last.sent) = 1

----------------------------------------------------------------------------
(* Properties of the saved image (checked under ImageSpec) *)

\* the step is a call of get_image_path, given one of feature and
\* preview_url, whose image GET was answered with success
Fetched(call) ==
    /\ OneGiven(call)
    /\ call.sent /= <<>>
    /\ call.sent[1].status < 400

\* what such a step does: the file named by the returned path holds the
\* image, or nothing is returned
C24_WriteFailureStep ==
    Fetched(last') =>
        \/ /\ last'.ret.tag = "path"
           /\ files'[last'.ret.val.name] = last'.sent[1].got.content
        \/ /\ last'.ret.tag = "raise"
           /\ last'.ret.val.exc = "ValueError"
           /\ \E text \in {"[Errno 13] Permission denied", "[Errno 28] No space left on device"} :
                 last'.ret.val.msg = "Error while writing image: " \o text

\* C24: if writing the image bytes to the temporary file fails,
\* get_image_path raises a ValueError that wraps the text of the original
\* error, instead of returning a path or None: a call whose image was
\* fetched either returns the path of a file that holds the image or
\* raises that ValueError.
C24_WriteFailure == [][C24_WriteFailureStep]_vars

\* C24 witness: write() failed after open() emptied the file, and the
\* ValueError carries the text of the failure
C24_Witness ==
    /\ Fetched(last)
    /\ last.ret = Raise("ValueError", "Error while writing image: [Errno 28] No space left on device")
    /\ \E n \in 1..MaxNames : files[n] = ""

----------------------------------------------------------------------------
(* C25 *)

\* what get_data_usage has to answer when get_all_subscriptions returned r:
\* the amounts of the subscription of least index that has both, else a 404
Limited(items) == { i \in 1..Len(items) : items[i].amountConsumed /= 0 /\ items[i].amountMax /= 0 }

UsageAnswer(r, ret) ==
    /\ ret.tag = "response"
    /\ IF r.tag = "json" /\ r.val.shape = "items" /\ Limited(r.val.items) /= {}
       THEN LET i == CHOOSE j \in Limited(r.val.items) : \A k \in Limited(r.val.items) : j <= k IN
            /\ ret.val.status = 200
            /\ ret.val.data = [consumed |-> r.val.items[i].amountConsumed,
                               max |-> r.val.items[i].amountMax]
       ELSE /\ ret.val.status = 404
            /\ ret.val.data.error = "no_limited_subscriptions"

\* C25: get_data_usage never raises: it returns a response with status 200
\* and the consumed and max amounts of the first subscription, in list
\* order, that has both, and otherwise (no such subscription, failed
\* authentication, failed request) a response with status 404 and error
\* 'no_limited_subscriptions'
C25_DataUsage ==
    last.op = "get_data_usage" =>
        LET asked == Positions(last.sent, "subscriptions") IN
        IF asked = {} THEN UsageAnswer(RetFalse, last.ret)
        ELSE \A i \in asked :
                UsageAnswer(IF last.sent[i].status = 403 THEN RetFalse
                            ELSE Ret("json", last.sent[i].got.json),
                            last.ret)

\* a 200 taken from the second subscription of the list, the first having
\* consumed nothing
C25_Witness ==
    /\ last.op = "get_data_usage"
    /\ last.ret.tag = "response"
    /\ last.ret.val.status = 200
    /\ last.ret.val.data = [consumed |-> 3, max |-> 10]

----------------------------------------------------------------------------
(* C26 *)

\* the contract ids the contracts endpoint answered with, in a call that
\* asked for them
ContractIds(sent) ==
    UNION { IF sent[i].status /= 403 /\ sent[i].got.json.shape = "contracts"
            THEN { sent[i].got.json.items[j].contractId : j \in 1..Len(sent[i].got.json.items) }
            ELSE {}
            : i \in Positions(sent, "contracts") }

\* the list a contract id is mapped to, given the answers of its requests
TaskingsOf(sent, id) ==
    IF \E i \in Positions(sent, "taskings") : sent[i].arg = id /\ Ok(sent[i])
    THEN LET i == CHOOSE j \in Positions(sent, "taskings") : sent[j].arg = id /\ Ok(sent[j]) IN
         <<sent[i].got.json>>
    ELSE <<>>

\* C26: for a user with contracts, get_taskings_from_contract_ids returns a
\* dict with exactly one key per contract id, mapped to the tasking
\* response's JSON when the request of that contract succeeded and to an
\* empty list when it did not; it does not raise
C26_Taskings ==
    (last.op = "get_taskings_from_contract_ids" /\ ContractIds(last.sent) /= {}) =>
        /\ last.ret.tag = "dict"
        /\ DOMAIN last.ret.val.data = ContractIds(last.sent)
        /\ \A id \in ContractIds(last.sent) : last.ret.val.data[id] = TaskingsOf(last.sent, id)

----------------------------------------------------------------------------
(* C27 (checked under PayloadSpec) *)

----------------------------------------------------------------------------
(* C28 (checked under Spec) *)

\* C28: once an Api is constructed, the token of the Authorization header
\* it builds is the token its Authentication session holds, also after the
\* session's token was obtained anew by get_token() or by the lazy
\* authentication of a getter
C28_HeaderToken ==
    api.kind \in ApiKinds =>
        _get_authenticated_headers(api).val.headers["Authorization"]
            = PyStr(<<"Bearer", " ">> \o TokenStr(auth.token))

----------------------------------------------------------------------------
(* C29, C30 (checked under Spec) *)

\* the operations of the session that authenticate lazily
LazyOps ==
    {"get_roles", "get_me", "get_contract_id", "get_all_subscriptions", "get_usage",
     "get_cis_contracts"}

\* C29: one call of get_roles, get_me, get_contract_id,
\* get_all_subscriptions, get_usage or get_cis_contracts sends at most one
\* credential exchange, in every session state and for every answer
C29_OneExchange ==
    last.op \in LazyOps => Cardinality(Positions(last.sent, "token")) <= 1

\* C30: get_all_subscriptions sends the subscriptions request only with a
\* contract id obtained from the profile; when get_me is answered 403 or the
\* profile has no contract id it returns False and sends no subscriptions
\* request
C30_ContractObtained ==
    last.op = "get_all_subscriptions" =>
        LET me == Positions(last.sent, "me")
            obtained == \E i \in me :
                           /\ last.sent[i].status /= 403
                           /\ last.sent[i].got.json.shape = "full" IN
        /\ \A i \in Positions(last.sent, "subscriptions") :
               obtained /\ last.sent[i].arg /= None
        /\ (me /= {} /\ ~obtained /\ last.ret.tag /= "raise") =>
               (last.ret = RetFalse /\ Positions(last.sent, "subscriptions") = {})

=============================================================================
